---- MODULE Spec2Model ----
(***************************************************************************)
(* Model of the core of src/Python/isotropic_3D_slicer.py: parse_axis,     *)
(* canonicalize_preserve_c_side and resample_z_isotropic.                  *)
(*                                                                         *)
(* Text is a sequence of one-character strings, an ndarray is a record     *)
(* [shape, data] whose data maps 0-based index tuples to element values.   *)
(* Each function of the source is an operator; each specification draws    *)
(* the arguments of one call and applies the function once.                *)
(***************************************************************************)
EXTENDS Integers, Sequences, FiniteSets, TLC

VARIABLES
    ax_str, ndim, allow_none, axis,          \* one call of parse_axis
    arr, z_axis, c_axis, canon,              \* one call of canonicalize_preserve_c_side
    arr_can, z_aspect, mode, scipy, iso,     \* one call of resample_z_isotropic
    z_axis_spec, c_axis_spec, skip_empty,    \* one call of save_isotropic_slices:
    progress_cb, imwrite_fails,              \*   arguments and collaborators,
    pc, slice_no, done, total, events, ret          \*   position, loop index, counters, calls made

vars == <<ax_str, ndim, allow_none, axis, arr, z_axis, c_axis, canon,
          arr_can, z_aspect, mode, scipy, iso,
          z_axis_spec, c_axis_spec, skip_empty, progress_cb, imwrite_fails,
          pc, slice_no, done, total, events, ret>>

(***************************************************************************)
(* Bounds of the model.                                                    *)
(***************************************************************************)
MaxTextLen == 3      \* longest enumerated axis text
MaxNdim == 5         \* largest number of dimensions
MaxAxisInt == 6      \* integer axis tokens range over -MaxAxisInt..MaxAxisInt
MaxDim == 2          \* largest axis size of the enumerated input shapes
MaxZ == 4            \* largest Z of the enumerated canonical volumes
MaxVal == 2          \* element values of the enumerated volumes are 0..MaxVal
MaxAspectNum == 5    \* z_aspect = num / den, num in -MaxAspectNum..MaxAspectNum
MaxFailAt == 2       \* the failing imwrite call, if any, is one of the first MaxFailAt

(***************************************************************************)
(* Python values.                                                          *)
(***************************************************************************)
None == [kind |-> "None", val |-> 0, msg |-> ""]
Int_(i) == [kind |-> "int", val |-> i, msg |-> ""]
ValueError(m) == [kind |-> "ValueError", val |-> 0, msg |-> m]
Pending == [kind |-> "pending", val |-> 0, msg |-> ""]

Str(s) == [type |-> "str", s |-> s, i |-> 0]
IntTok(i) == [type |-> "int", s |-> <<>>, i |-> i]
NoneTok == [type |-> "NoneType", s |-> <<>>, i |-> 0]
FloatTok == [type |-> "float", s |-> <<>>, i |-> 0]

(***************************************************************************)
(* str.strip(), str.lower() and int(str) of Python.                        *)
(***************************************************************************)
Whitespace == {" "}

RECURSIVE LStrip(_)
LStrip(s) == IF s # <<>> /\ Head(s) \in Whitespace THEN LStrip(Tail(s)) ELSE s

RECURSIVE RStrip(_)
RStrip(s) ==
    IF s # <<>> /\ s[Len(s)] \in Whitespace
    THEN RStrip(SubSeq(s, 1, Len(s) - 1))
    ELSE s

Strip(s) == RStrip(LStrip(s))

LowerChar(c) ==
    CASE c = "A" -> "a" [] c = "B" -> "b" [] c = "D" -> "d" [] c = "E" -> "e"
      [] c = "F" -> "f" [] c = "I" -> "i" [] c = "L" -> "l" [] c = "N" -> "n"
      [] c = "O" -> "o" [] c = "R" -> "r" [] c = "S" -> "s" [] c = "T" -> "t"
      [] OTHER -> c

Lower(s) == [k \in 1..Len(s) |-> LowerChar(s[k])]

Digits == {"0", "1", "2", "3", "4", "5", "6", "7", "8", "9"}

DigitVal(c) ==
    CASE c = "0" -> 0 [] c = "1" -> 1 [] c = "2" -> 2 [] c = "3" -> 3
      [] c = "4" -> 4 [] c = "5" -> 5 [] c = "6" -> 6 [] c = "7" -> 7
      [] c = "8" -> 8 [] c = "9" -> 9

\* digits with single underscores allowed between them
IsDigitString(b) ==
    /\ Len(b) >= 1
    /\ b[1] \in Digits
    /\ b[Len(b)] \in Digits
    /\ \A k \in 1..Len(b) : b[k] \in Digits \cup {"_"}
    /\ \A k \in 1..(Len(b) - 1) : ~(b[k] = "_" /\ b[k + 1] = "_")

RECURSIVE DigitsValue(_, _)
DigitsValue(b, acc) ==
    IF b = <<>> THEN acc
    ELSE IF Head(b) = "_" THEN DigitsValue(Tail(b), acc)
    ELSE DigitsValue(Tail(b), 10 * acc + DigitVal(Head(b)))

\* int(s): [ok, val]; ok = FALSE stands for the ValueError int() raises
PyInt(s) ==
    LET t == Strip(s)
        signed == t # <<>> /\ Head(t) \in {"+", "-"}
        b == IF signed THEN Tail(t) ELSE t
        mag == DigitsValue(b, 0)
    IN  IF IsDigitString(b)
        THEN [ok |-> TRUE, val |-> IF signed /\ Head(t) = "-" THEN 0 - mag ELSE mag]
        ELSE [ok |-> FALSE, val |-> 0]

(***************************************************************************)
(* parse_axis                                                              *)
(***************************************************************************)
InvalidAxisSpec == "Invalid axis spec"
AxisOutOfBounds == "Axis out of bounds"
InvalidAxisType == "Invalid axis type"

\* variant: -ndim itself is refused
InAxisRangeExclusive(i, nd) == (0 - nd) < i /\ i < nd

\* variant: ndim itself is admitted
InAxisRangeInclusive(i, nd) == (0 - nd) <= i /\ i <= nd

\* -ndim <= i < ndim
InAxisRange(i, nd) == (0 - nd) <= i /\ i < nd

ParseAxisStr(text, nd, allow) ==
    LET s == Lower(Strip(text))
        p == PyInt(s)
    IN  IF allow /\ s \in {<<"n","o","n","e">>, <<"n","o">>,
                           <<"d","i","s","a","b","l","e","d">>}
        THEN None
        ELSE IF s \in {<<"f","i","r","s","t">>, <<"0">>} THEN Int_(0)
        ELSE IF s \in {<<"l","a","s","t">>, <<"-","1">>} THEN Int_(nd - 1)
        ELSE IF ~p.ok THEN ValueError(InvalidAxisSpec)
        ELSE IF ~InAxisRange(p.val, nd) THEN ValueError(InvalidAxisSpec)
        ELSE Int_(p.val)

ParseAxis(tok, nd, allow) ==
    IF tok.type = "str" THEN ParseAxisStr(tok.s, nd, allow)
    ELSE IF tok.type = "NoneType" /\ allow THEN None
    ELSE IF tok.type = "int"
         THEN IF ~InAxisRange(tok.i, nd)
              THEN ValueError(AxisOutOfBounds)
              ELSE Int_(tok.i)
    ELSE ValueError(InvalidAxisType)

(***************************************************************************)
(* numpy arrays: shape, C-order element numbering, transpose.              *)
(***************************************************************************)
RECURSIVE Indices(_)
Indices(shape) ==
    IF shape = <<>> THEN {<<>>}
    ELSE {<<i>> \o t : i \in 0..(shape[1] - 1), t \in Indices(Tail(shape))}

RECURSIVE Size(_)
Size(shape) == IF shape = <<>> THEN 1 ELSE shape[1] * Size(Tail(shape))

RECURSIVE FlatIndex(_, _)
FlatIndex(idx, shape) ==
    IF shape = <<>> THEN 0
    ELSE idx[1] * Size(Tail(shape)) + FlatIndex(Tail(idx), Tail(shape))

\* np.arange(n).reshape(shape)
Arange(shape) ==
    [shape |-> shape, data |-> [idx \in Indices(shape) |-> FlatIndex(idx, shape)]]

\* np.zeros(shape)
Zeros(shape) == [shape |-> shape, data |-> [idx \in Indices(shape) |-> 0]]

NoArray == [shape |-> <<>>, data |-> <<>>]

PositionOf(perm, ax) == CHOOSE k \in 1..Len(perm) : perm[k] = ax

\* transpose accepts the axes only when, after adding ndim to the negative
\* ones, they are a permutation of range(ndim)
AdjustAxes(perm, nd) == [k \in 1..Len(perm) |-> IF perm[k] < 0 THEN perm[k] + nd ELSE perm[k]]

IsPermutation(perm, nd) ==
    /\ Len(perm) = nd
    /\ \A ax \in 0..(nd - 1) : \E k \in 1..nd : perm[k] = ax

\* arr.transpose(perm): axis k of the result is axis perm[k] of arr
Transpose(a, perm) ==
    LET nd == Len(a.shape)
        shp == [k \in 1..nd |-> a.shape[perm[k] + 1]]
    IN  [shape |-> shp,
         data |-> [idx \in Indices(shp) |->
                      a.data[[j \in 1..nd |-> idx[PositionOf(perm, j - 1)]]]]]

(***************************************************************************)
(* canonicalize_preserve_c_side                                            *)
(***************************************************************************)
NoChannelsNdim == "No channels axis but input ndim != 3"
ChannelsNdim == "Channels provided but input ndim (expected 4)"
SameDimension == "z_axis and c_axis refer to the same dimension."
BadAxes == "axes don't match array"
ChannelBetween ==
    "Channel axis must be either before both XY or after both XY (not between X and Y)."

Raised(m) == [kind |-> "ValueError", msg |-> m, arr_can |-> NoArray, cpos |-> "unset"]
Returned(a, cp) == [kind |-> "ok", msg |-> "", arr_can |-> a, cpos |-> cp]
NotCalled == [kind |-> "pending", msg |-> "", arr_can |-> NoArray, cpos |-> "unset"]

\* return arr.transpose(perm), cpos
TransposeReturn(a, perm, cp) ==
    LET nd == Len(a.shape)
        axes == AdjustAxes(perm, nd)
    IN  IF IsPermutation(axes, nd)
        THEN Returned(Transpose(a, axes), cp)
        ELSE Raised(BadAxes)

\* variant: a negative axis is used as it is given
NormAxisRaw(ax, nd) == ax

\* z_axis if z_axis >= 0 else z_axis + ndim
NormAxis(ax, nd) == IF ax >= 0 THEN ax ELSE ax + nd

\* variant: the remaining axes in descending order
OthersDescending(nd, excluded) ==
    SelectSeq([k \in 1..nd |-> nd - k], LAMBDA i : i \notin excluded)

\* [i for i in range(ndim) if i not in excluded]
Others(nd, excluded) ==
    SelectSeq([k \in 1..nd |-> k - 1], LAMBDA i : i \notin excluded)

SeqMin(s) == CHOOSE m \in {s[k] : k \in 1..Len(s)} : \A k \in 1..Len(s) : m <= s[k]
SeqMax(s) == CHOOSE m \in {s[k] : k \in 1..Len(s)} : \A k \in 1..Len(s) : m >= s[k]

\* variant: the channel axis is compared with the last spatial axis only
ChannelSideLastOnly(ca, others) ==
    IF ca < SeqMax(others) THEN "before" ELSE "after"

ChannelSide(ca, others) ==
    IF ca < SeqMin(others) THEN "before"
    ELSE IF ca > SeqMax(others) THEN "after"
    ELSE "between"

CanonicalizePreserveCSide(a, zax, cax) ==
    LET nd == Len(a.shape)
        za == NormAxis(zax, nd)
    IN  IF cax = None
        THEN IF nd # 3 THEN Raised(NoChannelsNdim)
             ELSE TransposeReturn(a, <<za>> \o Others(nd, {za}), "None")
        ELSE LET ca == NormAxis(cax.val, nd)
                 others == Others(nd, {za, ca})
                 y_ax == others[1]
                 x_ax == others[2]
                 side == ChannelSide(ca, others)
             IN  IF nd # 4 THEN Raised(ChannelsNdim)
                 ELSE IF za = ca THEN Raised(SameDimension)
                 ELSE IF side = "before"
                      THEN TransposeReturn(a, <<za, ca, y_ax, x_ax>>, "before")
                 ELSE IF side = "after"
                      THEN TransposeReturn(a, <<za, y_ax, x_ax, ca>>, "after")
                 ELSE Raised(ChannelBetween)

(***************************************************************************)
(* resample_z_isotropic                                                    *)
(***************************************************************************)
Max(a, b) == IF a >= b THEN a ELSE b
Min(a, b) == IF a <= b THEN a ELSE b

\* variant: ties are rounded up
RoundHalfUp(p, q) ==
    LET f == p \div q
        r == p - f * q
    IN  IF 2 * r < q THEN f ELSE f + 1

\* round(p / q) of Python and np.rint: to nearest, ties to the even integer
RoundHalfEven(p, q) ==
    LET f == p \div q
        r == p - f * q
    IN  IF 2 * r < q THEN f
        ELSE IF 2 * r > q THEN f + 1
        ELSE IF f % 2 = 0 THEN f ELSE f + 1

\* variant: the result is not kept at 1 or more
NewZUnfloored(Z, aspect) == RoundHalfEven(Z * aspect.num, aspect.den)

\* max(1, int(round(Z * z_aspect))), z_aspect = num / den
NewZ(Z, aspect) == Max(1, RoundHalfEven(Z * aspect.num, aspect.den))

\* np.clip(v, lo, hi) = minimum(maximum(v, lo), hi)
Clip(v, lo, hi) == Min(Max(v, lo), hi)

\* np.linspace(0, Z - 1, newZ)[k], as the fraction num / den
LinspaceNum(k, Z, newZ) == IF newZ = 1 THEN 0 ELSE k * (Z - 1)

\* variant: the sequence stops one step short of Z - 1 (endpoint excluded)
LinspaceDenNoEndpoint(newZ) == newZ

LinspaceDen(newZ) == IF newZ = 1 THEN 1 ELSE newZ - 1

\* np.clip(np.rint(np.linspace(0, Z - 1, newZ)).astype(int), 0, Z - 1)
SrcIdx(Z, newZ) ==
    [k \in 1..newZ |->
        Clip(RoundHalfEven(LinspaceNum(k - 1, Z, newZ), LinspaceDen(newZ)), 0, Z - 1)]

\* arr_can[src_idx, ...]
TakePlanes(a, src_idx) ==
    LET shp == <<Len(src_idx)>> \o Tail(a.shape)
    IN  [shape |-> shp,
         data |-> [idx \in Indices(shp) |->
                      a.data[<<src_idx[idx[1] + 1]>> \o Tail(idx)]]]

\* factors = [newZ / Z] + [1.0] * (ndim - 1), the first one as a fraction
ZoomFactor(newZ, Z) == [num |-> newZ, den |-> Z]

\* scipy.ndimage.zoom(arr_can, factors, order=1, prefilter=False): the result
\* has round(Z * factor) planes; plane o is sampled at input coordinate
\* o * (Z - 1) / (planes - 1) and blended linearly from the two neighbouring
\* input planes
Zoom(a, factor) ==
    LET Z == a.shape[1]
        outZ == RoundHalfEven(Z * factor.num, factor.den)
        shp == <<outZ>> \o Tail(a.shape)
        den == LinspaceDen(outZ)
        Lo(o) == LinspaceNum(o, Z, outZ) \div den
        Fr(o) == LinspaceNum(o, Z, outZ) - Lo(o) * den
        Hi(o) == Min(Lo(o) + 1, Z - 1)
    IN  [shape |-> shp,
         data |-> [idx \in Indices(shp) |->
                      RoundHalfEven(
                          a.data[<<Lo(idx[1])>> \o Tail(idx)] * (den - Fr(idx[1]))
                            + a.data[<<Hi(idx[1])>> \o Tail(idx)] * Fr(idx[1]),
                          den)]]

Resampled(a, p, calls) == [kind |-> "ok", out |-> a, path |-> p, zoom_calls |-> calls]
NotResampled == [kind |-> "pending", out |-> NoArray, path |-> "unset", zoom_calls |-> 0]

\* variant: a failure of the engine is not caught
ResampleZIsotropicNoFallback(a, aspect, md, engine) ==
    LET Z == a.shape[1]
        newZ == NewZ(Z, aspect)
        nearest == TakePlanes(a, SrcIdx(Z, newZ))
    IN  IF newZ = Z THEN Resampled(a, "identity", 0)
        ELSE IF md = "image" /\ engine = "available"
             THEN Resampled(Zoom(a, ZoomFactor(newZ, Z)), "linear", 1)
        ELSE IF md = "image"
             THEN [kind |-> "Exception", out |-> NoArray, path |-> "linear",
                   zoom_calls |-> IF engine = "raises" THEN 1 ELSE 0]
        ELSE Resampled(nearest, "nearest", 0)

\* variant: the mode test is inverted, labels go through zoom
ResampleZIsotropicLabelsZoomed(a, aspect, md, engine) ==
    LET Z == a.shape[1]
        newZ == NewZ(Z, aspect)
        nearest == TakePlanes(a, SrcIdx(Z, newZ))
    IN  IF newZ = Z THEN Resampled(a, "identity", 0)
        ELSE IF md # "image" /\ engine = "available"
             THEN Resampled(Zoom(a, ZoomFactor(newZ, Z)), "linear", 1)
        ELSE IF md # "image" /\ engine = "raises"
             THEN Resampled(nearest, "nearest", 1)
        ELSE Resampled(nearest, "nearest", 0)

\* engine: "available" (zoom returns), "missing" (the import fails),
\* "raises" (zoom is called and raises)
ResampleZIsotropic(a, aspect, md, engine) ==
    LET Z == a.shape[1]
        newZ == NewZ(Z, aspect)
        nearest == TakePlanes(a, SrcIdx(Z, newZ))
    IN  IF newZ = Z THEN Resampled(a, "identity", 0)
        ELSE IF md = "image" /\ engine = "available"
             THEN Resampled(Zoom(a, ZoomFactor(newZ, Z)), "linear", 1)
        ELSE IF md = "image" /\ engine = "raises"
             THEN Resampled(nearest, "nearest", 1)
        ELSE Resampled(nearest, "nearest", 0)

(***************************************************************************)
(* Arguments of the calls.                                                 *)
(***************************************************************************)
Alphabet == {" ", "-", "+", "_", "0", "1", "2", "n", "o", "N"}

Words ==
    { <<"f","i","r","s","t">>, <<"l","a","s","t">>, <<"n","o","n","e">>,
      <<"d","i","s","a","b","l","e","d">>, <<"F","i","r","s","t">>,
      <<" ","L","A","S","T"," ">>, <<"N","o","n","e"," ">>,
      <<"D","I","S","A","B","L","E","D">>, <<"a","b","c">>, <<"1",".","5">>,
      <<"3">>, <<"4">>, <<"5">>, <<"-","3">>, <<"-","4">>, <<"-","5">>,
      <<"-","6">>, <<"+","3">>, <<" ","-","2"," ">>, <<"-","0","0","1">>,
      <<"1","0">> }

Texts == Words \cup UNION {[1..n -> Alphabet] : n \in 0..MaxTextLen}

AxisTokens ==
    {Str(s) : s \in Texts}
        \cup {IntTok(i) : i \in (0 - MaxAxisInt)..MaxAxisInt}
        \cup {NoneTok, FloatTok}

Shapes == UNION {[1..n -> 1..MaxDim] : n \in 1..MaxNdim}

\* the arrays of run_self_tests, Tests 1 to 4
TestArrays ==
    { Arange(<<3, 4, 5>>), Zeros(<<5, 3, 4, 6>>), Zeros(<<7, 9, 11, 2>>),
      Zeros(<<4, 5, 6, 3>>) }

InputArrays == {Arange(s) : s \in Shapes} \cup TestArrays

AxisArgs(nd) == (0 - nd)..(nd - 1)

\* canonical volumes: every content over one-element planes, numbered
\* elements over wider planes and channel layouts, and the volumes of the tests
PlaneVolumes ==
    UNION { {[shape |-> <<z, 1, 1>>, data |-> d] :
                d \in [Indices(<<z, 1, 1>>) -> 0..MaxVal]} : z \in 1..MaxZ }

NumberedVolumes ==
    UNION { {Arange(<<z, 1, 2>>), Arange(<<z, 2, 1, 1>>), Arange(<<z, 1, 1, 2>>)} :
                z \in 1..MaxZ }

\* the canonical volumes of run_self_tests, Tests 1, 2, 3 and 5
TestVolumes ==
    { Arange(<<3, 4, 5>>), Zeros(<<5, 3, 4, 6>>), Zeros(<<7, 9, 11, 2>>),
      Zeros(<<4, 5, 6>>) }

Volumes == PlaneVolumes \cup NumberedVolumes \cup TestVolumes

Aspects ==
    {[num |-> n, den |-> d] : n \in (0 - MaxAspectNum)..MaxAspectNum, d \in {1, 2, 4}}

Modes == {"labels", "image"}
Engines == {"available", "missing", "raises"}

(***************************************************************************)
(* State machine: the arguments of a call are drawn at the start, the call *)
(* is one step.                                                            *)
(***************************************************************************)
NoAxisCall ==
    /\ ax_str = NoneTok
    /\ ndim = 0
    /\ allow_none = FALSE
    /\ axis = Pending

NoCanonCall ==
    /\ arr = NoArray
    /\ z_axis = 0
    /\ c_axis = None
    /\ canon = NotCalled

NoResampleCall ==
    /\ arr_can = NoArray
    /\ z_aspect = [num |-> 1, den |-> 1]
    /\ mode = "labels"
    /\ scipy = "available"
    /\ iso = NotResampled

Unreturned ==
    [kind |-> "unset", msg |-> "", Z |-> 0, Y |-> 0, X |-> 0, C |-> 0,
     cpos |-> "unset", mode |-> "unset"]

NoExportCall ==
    /\ z_axis_spec = NoneTok
    /\ c_axis_spec = NoneTok
    /\ skip_empty = FALSE
    /\ progress_cb = "None"
    /\ imwrite_fails = 0
    /\ pc = "idle"
    /\ slice_no = 0
    /\ done = 0
    /\ total = 0
    /\ events = <<>>
    /\ ret = Unreturned

axisVars == <<ax_str, ndim, allow_none, axis>>
canonVars == <<arr, z_axis, c_axis, canon>>
resampleVars == <<arr_can, z_aspect, mode, scipy, iso>>
exportVars == <<z_axis_spec, c_axis_spec, skip_empty, progress_cb, imwrite_fails,
                pc, slice_no, done, total, events, ret>>

InitAxis ==
    /\ ax_str \in AxisTokens
    /\ ndim \in 1..MaxNdim
    /\ allow_none \in BOOLEAN
    /\ axis = Pending
    /\ NoCanonCall
    /\ NoResampleCall
    /\ NoExportCall

CallParseAxis ==
    /\ axis = Pending
    /\ ndim >= 1
    /\ axis' = ParseAxis(ax_str, ndim, allow_none)
    /\ UNCHANGED <<ax_str, ndim, allow_none, canonVars, resampleVars, exportVars>>

SpecAxis == InitAxis /\ [][CallParseAxis]_vars

InitCanon ==
    /\ arr \in InputArrays
    /\ z_axis \in AxisArgs(Len(arr.shape))
    /\ c_axis \in {None} \cup {Int_(i) : i \in AxisArgs(Len(arr.shape))}
    /\ canon = NotCalled
    /\ NoAxisCall
    /\ NoResampleCall
    /\ NoExportCall

CallCanonicalize ==
    /\ canon = NotCalled
    /\ arr # NoArray
    /\ canon' = CanonicalizePreserveCSide(arr, z_axis, c_axis)
    /\ UNCHANGED <<arr, z_axis, c_axis, axisVars, resampleVars, exportVars>>

SpecCanon == InitCanon /\ [][CallCanonicalize]_vars

InitResample ==
    /\ arr_can \in Volumes
    /\ z_aspect \in Aspects
    /\ mode \in Modes
    /\ scipy \in Engines
    /\ iso = NotResampled
    /\ NoAxisCall
    /\ NoCanonCall
    /\ NoExportCall

CallResample ==
    /\ iso = NotResampled
    /\ arr_can # NoArray
    /\ iso' = ResampleZIsotropic(arr_can, z_aspect, mode, scipy)
    /\ UNCHANGED <<arr_can, z_aspect, mode, scipy, axisVars, canonVars, exportVars>>

SpecResample == InitResample /\ [][CallResample]_vars

TypeOK ==
    /\ axis.kind \in {"pending", "int", "None", "ValueError"}
    /\ canon.kind \in {"pending", "ok", "ValueError"}
    /\ iso.kind \in {"pending", "ok"}

(***************************************************************************)
(* save_isotropic_slices                                                   *)
(***************************************************************************)
\* float("nan"): round() of it raises
NaN == [num |-> 0, den |-> 0]
NaNToInteger == "cannot convert float NaN to integer"
ImwriteFailed == "imwrite failed"

\* a[..., t, ...] with t at axis ax: the axis is dropped
TakeAt(a, ax, t) ==
    LET shp == SubSeq(a.shape, 1, ax) \o SubSeq(a.shape, ax + 2, Len(a.shape))
    IN  [shape |-> shp,
         data |-> [idx \in Indices(shp) |->
                      a.data[SubSeq(idx, 1, ax) \o <<t>> \o SubSeq(idx, ax + 1, Len(idx))]]]

\* np.swapaxes(a, p, q)
SwapAxes(a, p, q) ==
    Transpose(a, [k \in 1..Len(a.shape) |->
                     IF k - 1 = p THEN q ELSE IF k - 1 = q THEN p ELSE k - 1])

\* np.max(tile)
ArrMax(a) ==
    CHOOSE m \in {a.data[idx] : idx \in DOMAIN a.data} :
        \A idx \in DOMAIN a.data : m >= a.data[idx]

\* np.max(tile) == 0
IsEmptyTile(tile) == ArrMax(tile) = 0

\* Z, Y, X, C of arr_iso; C = 0 stands for C = None
IsoDims(a, cp) ==
    IF Len(a.shape) = 3
    THEN [Z |-> a.shape[1], Y |-> a.shape[2], X |-> a.shape[3], C |-> 0]
    ELSE IF cp = "before"
         THEN [Z |-> a.shape[1], C |-> a.shape[2], Y |-> a.shape[3], X |-> a.shape[4]]
         ELSE [Z |-> a.shape[1], Y |-> a.shape[2], X |-> a.shape[3], C |-> a.shape[4]]

\* pc_for(before)
PcFor(before) == IF before THEN "separate" ELSE "contig"

Tile(a, axes, planar) == [tile |-> a, axes |-> axes, planarconfig |-> planar]

\* the tile of the XY loop at index z, with the metadata imwrite is given
XYTile(a, cp, z) ==
    IF Len(a.shape) = 3 THEN Tile(TakeAt(a, 0, z), "YX", "default")
    ELSE IF cp = "before" THEN Tile(TakeAt(a, 0, z), "CYX", PcFor(TRUE))
    ELSE Tile(TakeAt(a, 0, z), "YXC", PcFor(FALSE))

\* variant: the channel axis is left between Z and X
ZXTileUnswapped(a, cp, y) ==
    IF Len(a.shape) = 3 THEN Tile(TakeAt(a, 1, y), "ZX", "default")
    ELSE IF cp = "before" THEN Tile(TakeAt(a, 2, y), "CZX", PcFor(TRUE))
    ELSE Tile(TakeAt(a, 1, y), "ZXC", PcFor(FALSE))

\* the tile of the ZX loop at index y
ZXTile(a, cp, y) ==
    IF Len(a.shape) = 3 THEN Tile(TakeAt(a, 1, y), "ZX", "default")
    ELSE IF cp = "before" THEN Tile(SwapAxes(TakeAt(a, 2, y), 0, 1), "CZX", PcFor(TRUE))
    ELSE Tile(TakeAt(a, 1, y), "ZXC", PcFor(FALSE))

\* the tile of the ZY loop at index x
ZYTile(a, cp, x) ==
    IF Len(a.shape) = 3 THEN Tile(TakeAt(a, 2, x), "ZY", "default")
    ELSE IF cp = "before" THEN Tile(SwapAxes(TakeAt(a, 3, x), 0, 1), "CZY", PcFor(TRUE))
    ELSE Tile(TakeAt(a, 2, x), "ZYC", PcFor(FALSE))

\* calls made to the collaborators, in order
ImwriteCall(dir, index, tl, ok) ==
    [ev |-> "imwrite", dir |-> dir, index |-> index, axes |-> tl.axes,
     planarconfig |-> tl.planarconfig, tile |-> tl.tile, ok |-> ok,
     done |-> 0, total |-> 0]

ProgressCall(dir, index, d, tot, ok) ==
    [ev |-> "progress", dir |-> dir, index |-> index, axes |-> "", planarconfig |-> "",
     tile |-> NoArray, ok |-> ok, done |-> d, total |-> tot]

Imwrites(evs) == SelectSeq(evs, LAMBDA e : e.ev = "imwrite")
Progresses(evs) == SelectSeq(evs, LAMBDA e : e.ev = "progress")

\* progress_cb: None, a callback that returns, one that raises on every call,
\* one that raises on its first call only
ProgressCallbacks == {"None", "returns", "raises", "raises_once"}
CallbackRaises(cb, d) == cb = "raises" \/ (cb = "raises_once" /\ d = 1)

ExportRaised(kind, m) ==
    [kind |-> kind, msg |-> m, Z |-> 0, Y |-> 0, X |-> 0, C |-> 0,
     cpos |-> "unset", mode |-> "unset"]

Summary(dims, cp, md) ==
    [kind |-> "summary", msg |-> "", Z |-> dims.Z, Y |-> dims.Y, X |-> dims.X,
     C |-> dims.C, cpos |-> IF dims.C = 0 THEN "none" ELSE cp, mode |-> md]

\* signed label arrays, numbered arrays with and without channels
ExportValues == {-1, 0, 1}

ExportArrays ==
    {[shape |-> <<2, 1, 1>>, data |-> d] : d \in [Indices(<<2, 1, 1>>) -> ExportValues]}
        \cup {[shape |-> <<1, 2, 1, 1>>, data |-> d] :
                 d \in [Indices(<<1, 2, 1, 1>>) -> {-1, 0}]}
        \cup {Arange(<<2, 3, 1, 2>>), Arange(<<2, 2, 2>>), Zeros(<<2, 1, 2>>)}

ZAxisSpecs == {Str(<<"f","i","r","s","t">>), Str(<<"l","a","s","t">>), Str(<<"a","b","c">>)}
CAxisSpecs == {Str(<<"n","o","n","e">>), IntTok(1), Str(<<"l","a","s","t">>)}

ExportAspects ==
    {[num |-> 1, den |-> 1], [num |-> 2, den |-> 1], [num |-> 1, den |-> 2], NaN}

ExportModes == {<<"labels", "available">>, <<"image", "available">>, <<"image", "raises">>}

InitExport ==
    /\ arr \in ExportArrays
    /\ z_axis_spec \in ZAxisSpecs
    /\ c_axis_spec \in CAxisSpecs
    /\ z_aspect \in ExportAspects
    /\ \E m \in ExportModes : mode = m[1] /\ scipy = m[2]
    /\ skip_empty \in BOOLEAN
    /\ progress_cb \in ProgressCallbacks
    /\ imwrite_fails \in 0..MaxFailAt
    /\ pc = "start"
    /\ slice_no = 0
    /\ done = 0
    /\ total = 0
    /\ events = <<>>
    /\ ret = Unreturned
    /\ z_axis = 0
    /\ c_axis = None
    /\ canon = NotCalled
    /\ arr_can = NoArray
    /\ iso = NotResampled
    /\ NoAxisCall

exportArgs == <<arr, z_axis_spec, c_axis_spec, z_aspect, mode, scipy, skip_empty,
                progress_cb, imwrite_fails>>

\* variant: the error is dropped and the function goes on
AbortIgnored(kind, m) ==
    /\ pc' = pc
    /\ ret' = ret

\* raise: the function is left with the error
Abort(kind, m) ==
    /\ pc' = "raised"
    /\ ret' = ExportRaised(kind, m)

\* lines 241-283: axes, canonical volume, resampled volume, shapes, counters
Prepare ==
    /\ pc = "start"
    /\ LET nd == Len(arr.shape)
           za == ParseAxis(z_axis_spec, nd, FALSE)
           ca == ParseAxis(c_axis_spec, nd, TRUE)
           cn == CanonicalizePreserveCSide(arr, za.val, ca)
           rs == ResampleZIsotropic(cn.arr_can, z_aspect, mode, scipy)
           dims == IsoDims(rs.out, cn.cpos)
       IN  IF za.kind = "ValueError"
           THEN /\ Abort("ValueError", za.msg)
                /\ UNCHANGED <<z_axis, c_axis, canon, arr_can, iso, total>>
           ELSE IF ca.kind = "ValueError"
           THEN /\ Abort("ValueError", ca.msg)
                /\ z_axis' = za.val
                /\ UNCHANGED <<c_axis, canon, arr_can, iso, total>>
           ELSE IF cn.kind = "ValueError"
           THEN /\ Abort("ValueError", cn.msg)
                /\ z_axis' = za.val
                /\ c_axis' = ca
                /\ canon' = cn
                /\ UNCHANGED <<arr_can, iso, total>>
           ELSE IF z_aspect = NaN
           THEN /\ Abort("ValueError", NaNToInteger)
                /\ z_axis' = za.val
                /\ c_axis' = ca
                /\ canon' = cn
                /\ arr_can' = cn.arr_can
                /\ UNCHANGED <<iso, total>>
           ELSE /\ z_axis' = za.val
                /\ c_axis' = ca
                /\ canon' = cn
                /\ arr_can' = cn.arr_can
                /\ iso' = rs
                /\ total' = dims.Z + dims.Y + dims.X
                /\ pc' = "xy"
                /\ UNCHANGED ret
    /\ UNCHANGED <<slice_no, done, events, exportArgs, axisVars>>

\* variant: the loop stops one tile early
LoopContinuesShort(k, n) == k + 1 < n - 1

\* for z in range(n): another iteration follows iteration k
LoopContinues(k, n) == k + 1 < n

\* variant: an error of progress_cb leaves report()
ReportPropagatesRaise(cb, d) == CallbackRaises(cb, d)

\* report(): try: progress_cb(done, total, note) except Exception: pass
ReportPropagates(cb, d) == FALSE

\* variant: done is passed before it is incremented
ProgressCallStale(dir, index, d, tot, ok) ==
    [ev |-> "progress", dir |-> dir, index |-> index, axes |-> "", planarconfig |-> "",
     tile |-> NoArray, ok |-> ok, done |-> d - 1, total |-> tot]

\* progress_cb(done, total, note)
ReportCall(dir, index, d, tot, ok) == ProgressCall(dir, index, d, tot, ok)

\* one iteration of a loop over n tiles: imwrite unless the tile is skipped,
\* then report(); after the last iteration control goes to next
Iteration(dir, tl, n, next) ==
    LET skip == skip_empty /\ IsEmptyTile(tl.tile)
        fails == ~skip /\ imwrite_fails = Len(Imwrites(events)) + 1
        written == IF skip THEN events
                   ELSE Append(events, ImwriteCall(dir, slice_no, tl, ~fails))
    IN  IF fails
        THEN /\ events' = written
             /\ Abort("IOError", ImwriteFailed)
             /\ UNCHANGED <<slice_no, done>>
        ELSE /\ done' = done + 1
             /\ events' = IF progress_cb = "None" THEN written
                          ELSE Append(written,
                                      ReportCall(dir, slice_no, done + 1, total,
                                                 ~CallbackRaises(progress_cb, done + 1)))
             /\ IF progress_cb # "None" /\ ReportPropagates(progress_cb, done + 1)
                THEN Abort("Exception", "progress_cb raised") /\ UNCHANGED slice_no
                ELSE /\ IF LoopContinues(slice_no, n)
                        THEN slice_no' = slice_no + 1 /\ pc' = pc
                        ELSE slice_no' = 0 /\ pc' = next
                     /\ UNCHANGED ret

exportFrame == <<exportArgs, axisVars, z_axis, c_axis, canon, arr_can, iso, total>>

\* lines 295-311
WriteXY ==
    /\ pc = "xy"
    /\ Iteration("xy", XYTile(iso.out, canon.cpos, slice_no),
                 IsoDims(iso.out, canon.cpos).Z, "zx")
    /\ UNCHANGED exportFrame

\* lines 314-330
WriteZX ==
    /\ pc = "zx"
    /\ Iteration("zx", ZXTile(iso.out, canon.cpos, slice_no),
                 IsoDims(iso.out, canon.cpos).Y, "zy")
    /\ UNCHANGED exportFrame

\* lines 333-349
WriteZY ==
    /\ pc = "zy"
    /\ Iteration("zy", ZYTile(iso.out, canon.cpos, slice_no),
                 IsoDims(iso.out, canon.cpos).X, "return")
    /\ UNCHANGED exportFrame

\* lines 351-356
Return ==
    /\ pc = "return"
    /\ ret' = Summary(IsoDims(iso.out, canon.cpos), canon.cpos, mode)
    /\ pc' = "done"
    /\ UNCHANGED <<slice_no, done, events, exportFrame>>

NextExport == Prepare \/ WriteXY \/ WriteZX \/ WriteZY \/ Return

SpecExport == InitExport /\ [][NextExport]_vars

(***************************************************************************)
(* Properties of canonicalize_preserve_c_side (SpecCanon).                 *)
(***************************************************************************)
InNdim == Len(arr.shape)
ZDim == (z_axis + InNdim) % InNdim
CDim == (c_axis.val + InNdim) % InNdim
Spatial == (0..(InNdim - 1)) \ {ZDim, CDim}
YDim == CHOOSE y \in Spatial : \A s \in Spatial : y <= s
XDim == CHOOSE x \in Spatial : \A s \in Spatial : x >= s
CanonDone == canon.kind # "pending"
FourDWithChannel == CanonDone /\ InNdim = 4 /\ c_axis # None /\ ZDim # CDim
ChannelIsBetween == \E a \in Spatial, b \in Spatial : a < CDim /\ CDim < b

\* the result holds the elements of the input, axis k of the result being
\* axis p[k] of the input
IsPermutedBy(out, in, p) ==
    /\ {p[k] : k \in 1..Len(p)} = 0..(Len(in.shape) - 1)
    /\ Len(p) = Len(in.shape)
    /\ out.shape = [k \in 1..Len(p) |-> in.shape[p[k] + 1]]
    /\ DOMAIN out.data = Indices(out.shape)
    /\ \A idx \in Indices(in.shape) :
          out.data[[k \in 1..Len(p) |-> idx[p[k] + 1]]] = in.data[idx]

\* C1: a 4-D input whose channel axis lies strictly between the two spatial
\* axes is rejected with the channel-between-XY error; no volume and no
\* placement are returned.
C1_ChannelBetweenRejected ==
    (FourDWithChannel /\ ChannelIsBetween)
        => /\ canon.kind = "ValueError"
           /\ canon.msg = ChannelBetween
           /\ canon.arr_can = NoArray
           /\ canon.cpos = "unset"

\* Test 4 of run_self_tests: shape (4,5,6,3), z_axis=0, c_axis=2 is rejected
C1_Witness ==
    /\ arr.shape = <<4, 5, 6, 3>>
    /\ z_axis = 0
    /\ c_axis = Int_(2)
    /\ ChannelIsBetween
    /\ canon.kind = "ValueError"

\* C2: for a 4-D input with distinct Z and channel axes the placement is
\* Before with axes (Z, C, Y, X) exactly when the channel precedes both
\* spatial axes and After with axes (Z, Y, X, C) exactly when it follows both;
\* Y and X keep their original order, the element count is unchanged and the
\* shapes (5,3,4,6) with z=0,c=1 and (7,9,11,2) with z=0,c=3 are kept.
C2_BeforeAfterPlacement ==
    FourDWithChannel
        => /\ (canon.kind = "ok" /\ canon.cpos = "before") <=> (CDim < YDim)
           /\ (canon.kind = "ok" /\ canon.cpos = "after") <=> (CDim > XDim)
           /\ YDim < XDim
           /\ (CDim < YDim) => IsPermutedBy(canon.arr_can, arr, <<ZDim, CDim, YDim, XDim>>)
           /\ (CDim > XDim) => IsPermutedBy(canon.arr_can, arr, <<ZDim, YDim, XDim, CDim>>)
           /\ (canon.kind = "ok")
                 => Cardinality(DOMAIN canon.arr_can.data) = Cardinality(DOMAIN arr.data)
           /\ (arr.shape = <<5, 3, 4, 6>> /\ z_axis = 0 /\ c_axis = Int_(1))
                 => (canon.cpos = "before" /\ canon.arr_can.shape = <<5, 3, 4, 6>>)
           /\ (arr.shape = <<7, 9, 11, 2>> /\ z_axis = 0 /\ c_axis = Int_(3))
                 => (canon.cpos = "after" /\ canon.arr_can.shape = <<7, 9, 11, 2>>)

\* channel first and Z last, both given as negative indices
C2_Witness ==
    /\ arr.shape = <<2, 1, 2, 2>>
    /\ z_axis = -1
    /\ c_axis = Int_(-4)
    /\ canon.kind = "ok"
    /\ canon.cpos = "before"
    /\ canon.arr_can.data[<<1, 0, 0, 1>>] = arr.data[<<0, 0, 1, 1>>]

\* C3: without a channel axis every input that is not 3-D is rejected with
\* the dimension-mismatch error; a 3-D input with any Z index, negative ones
\* included, gives placement Absent and a volume whose axis 0 is the input's
\* Z axis and whose axes 1 and 2 are the other two axes in their original
\* order, so the axis-0 size is the Z-axis size and the element count is kept.
C3_NoChannel ==
    (CanonDone /\ c_axis = None)
        => /\ (InNdim # 3)
                 => (canon.kind = "ValueError" /\ canon.msg = NoChannelsNdim
                        /\ canon.arr_can = NoArray)
           /\ (InNdim = 3)
                 => LET rest == (0..2) \ {ZDim}
                        y == CHOOSE a \in rest : \A b \in rest : a <= b
                        x == CHOOSE a \in rest : \A b \in rest : a >= b
                    IN  /\ canon.kind = "ok"
                        /\ canon.cpos = "None"
                        /\ IsPermutedBy(canon.arr_can, arr, <<ZDim, y, x>>)
                        /\ canon.arr_can.shape[1] = arr.shape[ZDim + 1]
                        /\ Cardinality(DOMAIN canon.arr_can.data)
                              = Cardinality(DOMAIN arr.data)

\* the array of Test 1 with Z given as the last axis by a negative index
C3_Witness ==
    /\ arr = Arange(<<3, 4, 5>>)
    /\ z_axis = -1
    /\ c_axis = None
    /\ canon.kind = "ok"
    /\ canon.arr_can.shape = <<5, 3, 4>>
    /\ canon.arr_can.data[<<4, 2, 3>>] = 59

\* C4: with a channel axis given, an input that is not 4-D is rejected, and a
\* 4-D input whose Z and channel indices denote the same dimension, also when
\* one is negative and the other not (z=-1, c=3), is rejected with the
\* axis-conflict error; no volume is produced in either case.
C4_ChannelNdimAndConflict ==
    (CanonDone /\ c_axis # None)
        => /\ (InNdim # 4)
                 => (canon.kind = "ValueError" /\ canon.msg = ChannelsNdim
                        /\ canon.arr_can = NoArray)
           /\ (InNdim = 4 /\ ZDim = CDim)
                 => (canon.kind = "ValueError" /\ canon.msg = SameDimension
                        /\ canon.arr_can = NoArray)

C4_Witness ==
    /\ InNdim = 4
    /\ z_axis = -1
    /\ c_axis = Int_(3)
    /\ canon.kind = "ValueError"
    /\ canon.msg = SameDimension

(***************************************************************************)
(* Properties of parse_axis (SpecAxis).                                    *)
(***************************************************************************)
TokText == Lower(Strip(ax_str.s))
IsText == ax_str.type = "str"
IsFirst == IsText /\ TokText = <<"f","i","r","s","t">>
IsLast == IsText /\ TokText = <<"l","a","s","t">>
IsNoneEquiv ==
    \/ ax_str.type = "NoneType"
    \/ IsText /\ TokText \in {<<"n","o","n","e">>, <<"n","o">>,
                              <<"d","i","s","a","b","l","e","d">>}
IsInteger == ax_str.type = "int" \/ (IsText /\ PyInt(TokText).ok)
TokInt == IF IsText THEN PyInt(TokText).val ELSE ax_str.i
IntInRange == IsInteger /\ (0 - ndim) <= TokInt /\ TokInt < ndim
Unparsable == ~IsFirst /\ ~IsLast /\ ~IsNoneEquiv /\ ~IsInteger
AxisDone == axis.kind # "pending"
AcceptedAsAxis == AxisDone /\ (IsFirst \/ IsLast \/ IntInRange)

\* C5 as stated: every accepted axis token resolves to the concrete index in
\* [0, ndim): First to 0, Last to ndim-1, a negative integer i to i + ndim.
C5_Original ==
    AcceptedAsAxis
        => /\ axis.kind = "int"
           /\ axis.val \in 0..(ndim - 1)
           /\ IsFirst => axis.val = 0
           /\ IsLast => axis.val = ndim - 1
           /\ (IsInteger /\ TokInt >= 0) => axis.val = TokInt
           /\ (IsInteger /\ TokInt < 0) => axis.val = TokInt + ndim

\* C5 amended: every accepted axis token resolves to an integer of
\* [-ndim, ndim) that denotes the requested dimension: First gives 0, Last
\* gives ndim-1, a non-negative integer gives itself, and a negative integer i
\* is returned as i itself, except that the text "-1" gives ndim-1.
C5_ResolvedAxis ==
    AcceptedAsAxis
        => /\ axis.kind = "int"
           /\ (0 - ndim) <= axis.val /\ axis.val < ndim
           /\ IsFirst => axis.val = 0
           /\ IsLast => axis.val = ndim - 1
           /\ (IsInteger /\ TokInt >= 0) => axis.val = TokInt
           /\ (IsInteger /\ TokInt < 0)
                 => axis.val = IF IsText /\ TokText = <<"-","1">>
                                THEN ndim - 1
                                ELSE TokInt
           /\ IsInteger => (axis.val + ndim) % ndim = (TokInt + ndim) % ndim

\* the text "-2" for a 4-D input is returned as -2
C5_Witness ==
    /\ ax_str = Str(<<"-","2">>)
    /\ ndim = 4
    /\ axis = Int_(-2)

\* C6: parse_axis fails exactly when the token is unparsable, or is an
\* integer outside [-ndim, ndim), or is a None-equivalent token while
\* allow_none is unset; with allow_none set every None-equivalent token
\* resolves to None and never to an index.
C6_FailsExactlyWhen ==
    AxisDone
        => /\ (axis.kind = "ValueError")
                 <=> \/ Unparsable
                     \/ IsInteger /\ ~IntInRange
                     \/ IsNoneEquiv /\ ~allow_none
           /\ (IsNoneEquiv /\ allow_none) => axis = None

\* "None " is refused when allow_none is unset
C6_Witness ==
    /\ ax_str = Str(<<"N","o","n","e"," ">>)
    /\ ~allow_none
    /\ IsNoneEquiv
    /\ axis.kind = "ValueError"

(***************************************************************************)
(* Properties of resample_z_isotropic (SpecResample).                      *)
(***************************************************************************)
ResampleDone == iso.kind # "pending"
InZ == arr_can.shape[1]
OutZ == iso.out.shape[1]
Abs(n) == IF n < 0 THEN 0 - n ELSE n

\* n is p / q rounded to the nearest integer, a tie going to the even one
RoundsTo(n, p, q) ==
    \/ 2 * Abs(p - n * q) < q
    \/ 2 * Abs(p - n * q) = q /\ n % 2 = 0

\* n = max(1, round(InZ * z_aspect))
NewZIs(n) ==
    IF 2 * InZ * z_aspect.num <= z_aspect.den
    THEN n = 1
    ELSE RoundsTo(n, InZ * z_aspect.num, z_aspect.den)

\* C7 as stated: a call with aspect <= 0 fails with the invalid-parameter
\* error, in both modes, and returns no volume.
C7_NonPositiveAspectFails ==
    (ResampleDone /\ z_aspect.num <= 0)
        => (iso.kind = "ValueError" /\ iso.out = NoArray)

\* C8: with aspect 1.0, and with any aspect for which
\* max(1, round(Z * aspect)) is the current Z, the input volume is returned
\* unchanged in both modes and the interpolation engine is not invoked.
C8_IdentityWhenSameZ ==
    (ResampleDone /\ (z_aspect.num = z_aspect.den \/ NewZIs(InZ)))
        => /\ iso.out = arr_can
           /\ iso.zoom_calls = 0

\* image mode with the engine at hand, Z = 2 and aspect 1.25: 2.5 rounds to 2
C8_Witness ==
    /\ arr_can.shape = <<2, 1, 1>>
    /\ z_aspect = [num |-> 5, den |-> 4]
    /\ mode = "image"
    /\ scipy = "available"
    /\ iso.kind = "ok"
    /\ iso.out = arr_can

\* C9: for aspect > 0 and both modes the result has axis-0 size
\* max(1, round(Z * aspect)) and every other axis size unchanged; Z=3 with
\* aspect 2.0 gives 6, Z=5 with 1.5 gives 8, Z=7 with 2.0 gives 14, Z=4 with
\* 2.0 gives 8.
C9_ResampledShape ==
    (ResampleDone /\ z_aspect.num > 0)
        => /\ iso.kind = "ok"
           /\ NewZIs(OutZ)
           /\ Tail(iso.out.shape) = Tail(arr_can.shape)
           /\ DOMAIN iso.out.data = Indices(iso.out.shape)
           /\ (InZ = 3 /\ z_aspect.num = 2 * z_aspect.den) => OutZ = 6
           /\ (InZ = 5 /\ 2 * z_aspect.num = 3 * z_aspect.den) => OutZ = 8
           /\ (InZ = 7 /\ z_aspect.num = 2 * z_aspect.den) => OutZ = 14
           /\ (InZ = 4 /\ z_aspect.num = 2 * z_aspect.den) => OutZ = 8

\* Test 2 in image mode: (5,3,4,6) with aspect 1.5 becomes (8,3,4,6)
C9_Witness ==
    /\ arr_can.shape = <<5, 3, 4, 6>>
    /\ z_aspect = [num |-> 3, den |-> 2]
    /\ mode = "image"
    /\ scipy = "available"
    /\ iso.path = "linear"
    /\ iso.out.shape = <<8, 3, 4, 6>>

\* C10: in labels mode, and in image mode when the engine is missing or
\* raises, every plane of the result is a copy of one input plane with index
\* in [0, Z-1], so every element value of the result is one of the input.
C10_NearestKeepsValues ==
    (ResampleDone /\ (mode = "labels" \/ scipy # "available"))
        => /\ \A k \in 0..(OutZ - 1) : \E j \in 0..(InZ - 1) :
                 \A rest \in Indices(Tail(arr_can.shape)) :
                    iso.out.data[<<k>> \o rest] = arr_can.data[<<j>> \o rest]
           /\ {iso.out.data[idx] : idx \in DOMAIN iso.out.data}
                 \subseteq {arr_can.data[idx] : idx \in DOMAIN arr_can.data}

\* image mode falling back: labels 0, 2 stretched from 2 to 3 planes
C10_Witness ==
    /\ arr_can.shape = <<2, 1, 1>>
    /\ arr_can.data[<<0, 0, 0>>] = 0
    /\ arr_can.data[<<1, 0, 0>>] = 2
    /\ mode = "image"
    /\ scipy = "raises"
    /\ iso.path = "nearest"
    /\ OutZ = 3

\* the input plane that output plane k is a copy of
PlaneSource(k) ==
    CHOOSE j \in 0..(InZ - 1) :
        \A rest \in Indices(Tail(arr_can.shape)) :
            iso.out.data[<<k>> \o rest] = arr_can.data[<<j>> \o rest]

DistinctPlanes ==
    \A i \in 0..(InZ - 1), j \in 0..(InZ - 1) :
        (i # j) => \E rest \in Indices(Tail(arr_can.shape)) :
                      arr_can.data[<<i>> \o rest] # arr_can.data[<<j>> \o rest]

\* the input plane nearest to position k of the linear sequence over [0, Z-1]
NearestPlane(k) ==
    CHOOSE j \in 0..(InZ - 1) :
        IF OutZ = 1 THEN j = 0 ELSE RoundsTo(j, k * (InZ - 1), OutZ - 1)

\* C11: in image mode with the interpolation engine missing or raising, the
\* call does not fail and returns exactly the volume labels mode returns for
\* the same input and aspect.
C11_ImageFallsBackToNearest ==
    (ResampleDone /\ mode = "image" /\ scipy # "available")
        => /\ iso.kind = "ok"
           /\ iso.out = ResampleZIsotropic(arr_can, z_aspect, "labels", scipy).out
           /\ NewZIs(OutZ)
           /\ Tail(iso.out.shape) = Tail(arr_can.shape)
           /\ \A idx \in DOMAIN iso.out.data :
                 iso.out.data[idx] = arr_can.data[<<NearestPlane(idx[1])>> \o Tail(idx)]

\* the engine raises on a 3-plane volume stretched to 6 planes
C11_Witness ==
    /\ arr_can = Arange(<<3, 4, 5>>)
    /\ z_aspect = [num |-> 2, den |-> 1]
    /\ mode = "image"
    /\ scipy = "raises"
    /\ iso.kind = "ok"
    /\ iso.zoom_calls = 1
    /\ iso.out.shape = <<6, 4, 5>>

\* C18: in nearest-neighbour resampling from Z to newZ planes the source
\* plane indices are non-decreasing; for newZ >= 2 the first output plane is
\* input plane 0 and the last is input plane Z-1; for newZ >= Z every input
\* plane appears in the output; for newZ = 1 only input plane 0 is kept.
C18_SourcePlaneOrder ==
    (ResampleDone /\ iso.path = "nearest")
        => LET s == SrcIdx(InZ, OutZ)
           IN  /\ NewZIs(OutZ)
               /\ iso.out = TakePlanes(arr_can, s)
               /\ \A k \in 1..(OutZ - 1) : s[k] <= s[k + 1]
               /\ (OutZ >= 2) => (s[1] = 0 /\ s[OutZ] = InZ - 1)
               /\ (OutZ >= InZ) => \A j \in 0..(InZ - 1) : \E k \in 1..OutZ : s[k] = j
               /\ (OutZ = 1) => s = <<0>>
               /\ DistinctPlanes
                     => /\ \A k \in 0..(OutZ - 2) : PlaneSource(k) <= PlaneSource(k + 1)
                        /\ (OutZ >= 2) => /\ PlaneSource(0) = 0
                                          /\ PlaneSource(OutZ - 1) = InZ - 1
                        /\ (OutZ >= InZ)
                              => \A j \in 0..(InZ - 1) :
                                    \E k \in 0..(OutZ - 1) : PlaneSource(k) = j
                        /\ (OutZ = 1) => PlaneSource(0) = 0

\* 4 numbered planes stretched to 5: planes 0, 1, 2, 2, 3
C18_Witness ==
    /\ arr_can = Arange(<<4, 1, 2>>)
    /\ z_aspect = [num |-> 5, den |-> 4]
    /\ mode = "labels"
    /\ iso.path = "nearest"
    /\ OutZ = 5
    /\ PlaneSource(2) = 2
    /\ PlaneSource(3) = 2

(***************************************************************************)
(* Properties of save_isotropic_slices (SpecExport).                       *)
(***************************************************************************)
\* the resampled canonical volume exists: the loops have been entered
Exporting == iso.kind = "ok" /\ pc \in {"xy", "zx", "zy", "return", "done", "raised"}
Vol == iso.out
Placement == IF Len(Vol.shape) = 3 THEN "absent" ELSE canon.cpos
VolZ == Vol.shape[1]
VolY == IF Placement = "before" THEN Vol.shape[3] ELSE Vol.shape[2]
VolX == IF Placement = "before" THEN Vol.shape[4] ELSE Vol.shape[3]

\* xy 0..Z-1, then zx 0..Y-1, then zy 0..X-1
ExpectedOrder ==
    [k \in 1..(VolZ + VolY + VolX) |->
        IF k <= VolZ THEN <<"xy", k - 1>>
        ELSE IF k <= VolZ + VolY THEN <<"zx", k - 1 - VolZ>>
        ELSE <<"zy", k - 1 - VolZ - VolY>>]

TilesOf(evs) == [k \in 1..Len(evs) |-> <<evs[k].dir, evs[k].index>>]
IsPrefix(s, u) == Len(s) <= Len(u) /\ \A k \in 1..Len(s) : s[k] = u[k]

\* C12: with skip_empty unset the sink is handed the xy tiles 0..Z-1 in
\* ascending order, then the zx tiles 0..Y-1, then the zy tiles 0..X-1, Z, Y, X
\* being the dimensions of the resampled canonical volume: at every moment the
\* tiles handed over are an initial part of that sequence, and a finished
\* export has handed over all of it.
C12_TileOrder ==
    (Exporting /\ ~skip_empty)
        => /\ IsPrefix(TilesOf(Imwrites(events)), ExpectedOrder)
           /\ (pc = "done") => TilesOf(Imwrites(events)) = ExpectedOrder

\* channels before XY, Z stretched from 2 to 4: 4 xy, 1 zx and 2 zy tiles
C12_Witness ==
    /\ pc = "done"
    /\ ~skip_empty
    /\ arr = Arange(<<2, 3, 1, 2>>)
    /\ canon.cpos = "before"
    /\ TilesOf(Imwrites(events))
          = << <<"xy", 0>>, <<"xy", 1>>, <<"xy", 2>>, <<"xy", 3>>,
               <<"zx", 0>>, <<"zy", 0>>, <<"zy", 1>> >>

VolC == IF Placement = "before" THEN Vol.shape[2] ELSE Vol.shape[4]

\* the tile has the given axes tag and shape, and its element at idx is the
\* volume's element at At(idx)
TileIs(e, axes, shape, At(_)) ==
    /\ e.axes = axes
    /\ e.tile.shape = shape
    /\ DOMAIN e.tile.data = Indices(shape)
    /\ \A idx \in Indices(shape) : e.tile.data[idx] = Vol.data[At(idx)]

TileAsTagged(e) ==
    LET n == e.index
    IN  CASE e.dir = "xy" /\ Placement = "absent" ->
                TileIs(e, "YX", <<VolY, VolX>>, LAMBDA q : <<n, q[1], q[2]>>)
          [] e.dir = "xy" /\ Placement = "before" ->
                TileIs(e, "CYX", <<VolC, VolY, VolX>>, LAMBDA q : <<n, q[1], q[2], q[3]>>)
          [] e.dir = "xy" /\ Placement = "after" ->
                TileIs(e, "YXC", <<VolY, VolX, VolC>>, LAMBDA q : <<n, q[1], q[2], q[3]>>)
          [] e.dir = "zx" /\ Placement = "absent" ->
                TileIs(e, "ZX", <<VolZ, VolX>>, LAMBDA q : <<q[1], n, q[2]>>)
          [] e.dir = "zx" /\ Placement = "before" ->
                TileIs(e, "CZX", <<VolC, VolZ, VolX>>, LAMBDA q : <<q[2], q[1], n, q[3]>>)
          [] e.dir = "zx" /\ Placement = "after" ->
                TileIs(e, "ZXC", <<VolZ, VolX, VolC>>, LAMBDA q : <<q[1], n, q[2], q[3]>>)
          [] e.dir = "zy" /\ Placement = "absent" ->
                TileIs(e, "ZY", <<VolZ, VolY>>, LAMBDA q : <<q[1], q[2], n>>)
          [] e.dir = "zy" /\ Placement = "before" ->
                TileIs(e, "CZY", <<VolC, VolZ, VolY>>, LAMBDA q : <<q[2], q[1], q[3], n>>)
          [] e.dir = "zy" /\ Placement = "after" ->
                TileIs(e, "ZYC", <<VolZ, VolY, VolC>>, LAMBDA q : <<q[1], q[2], n, q[3]>>)
          [] OTHER -> FALSE

\* C13: every tile handed to the sink has the dimension order its axes tag
\* names: xy tiles are YX / CYX / YXC, zx tiles ZX / CZX / ZXC, zy tiles
\* ZY / CZY / ZYC for placement Absent / Before / After; with placement Before
\* zx tile t has tile[c][z][x] = volume[z][c][t][x] and zy tile t has
\* tile[c][z][y] = volume[z][c][y][t]; with placement After the slice at the
\* fixed index is used as it is.
C13_TileLayout ==
    Exporting
        => \A k \in 1..Len(events) :
              (events[k].ev = "imwrite") => TileAsTagged(events[k])

\* a CZX tile of a (Z=4, C=3, Y=1, X=2) volume
C13_Witness ==
    /\ Exporting
    /\ Placement = "before"
    /\ Vol.shape = <<4, 3, 1, 2>>
    /\ \E k \in 1..Len(events) :
          /\ events[k].ev = "imwrite"
          /\ events[k].dir = "zx"
          /\ events[k].axes = "CZX"
          /\ events[k].tile.shape = <<3, 4, 2>>
          /\ events[k].tile.data[<<2, 3, 1>>] = Vol.data[<<3, 2, 0, 1>>]

\* position, in an index of the volume, of the dimension a direction iterates
FixedPos(dir) ==
    CASE dir = "xy" -> 1
      [] dir = "zx" -> IF Placement = "before" THEN 3 ELSE 2
      [] dir = "zy" -> IF Placement = "before" THEN 4 ELSE 3

\* every element of tile n of the direction is zero
SliceAllZero(dir, n) ==
    \A idx \in Indices(Vol.shape) : (idx[FixedPos(dir)] = n) => Vol.data[idx] = 0

\* C14: with skip_empty set a tile is withheld from the sink exactly when every
\* one of its elements is zero, whatever the element type; a tile with a
\* non-zero element is written, and with skip_empty unset no tile is withheld.
C14_SkipExactlyAllZero ==
    (Exporting /\ pc = "done")
        => TilesOf(Imwrites(events))
              = SelectSeq(ExpectedOrder,
                          LAMBDA t : ~(skip_empty /\ SliceAllZero(t[1], t[2])))

Counts(evs) == [k \in 1..Len(evs) |-> <<evs[k].done, evs[k].total>>]
VolTotal == VolZ + VolY + VolX

\* C15: with a progress callback, progress_cb is called once per tile of the
\* sequence xy, zx, zy, written or skipped, after the tile's write; the k-th
\* call carries done = k and total = Z+Y+X, done never exceeds total, and the
\* last call of a finished export has done = total.
C15_ProgressPerTile ==
    (Exporting /\ progress_cb # "None")
        => LET P == Progresses(events)
           IN  /\ Len(P) <= VolTotal
               /\ IsPrefix(TilesOf(P), ExpectedOrder)
               /\ \A k \in 1..Len(P) : P[k].done = k /\ P[k].total = VolTotal
               /\ \A k \in 1..Len(events) :
                     (events[k].ev = "imwrite" /\ events[k].ok)
                         => /\ k < Len(events)
                            /\ events[k + 1].ev = "progress"
                            /\ events[k + 1].dir = events[k].dir
                            /\ events[k + 1].index = events[k].index
               /\ (pc = "done") => (Len(P) = VolTotal /\ P[Len(P)].done = VolTotal)

\* a finished export that skipped a tile and still reported it
C15_Witness ==
    /\ Exporting
    /\ pc = "done"
    /\ progress_cb = "returns"
    /\ skip_empty
    /\ Len(Imwrites(events)) < Len(Progresses(events))
    /\ Len(Imwrites(events)) > 0
    /\ Counts(Progresses(events)) = << <<1, 4>>, <<2, 4>>, <<3, 4>>, <<4, 4>> >>

ExportedTile(t) ==
    CASE t[1] = "xy" -> XYTile(Vol, canon.cpos, t[2])
      [] t[1] = "zx" -> ZXTile(Vol, canon.cpos, t[2])
      [] t[1] = "zy" -> ZYTile(Vol, canon.cpos, t[2])

\* what is written and reported when progress_cb never raises
QuietWrites ==
    LET kept == SelectSeq(ExpectedOrder,
                          LAMBDA t : ~(skip_empty /\ IsEmptyTile(ExportedTile(t).tile)))
    IN  [k \in 1..Len(kept) |-> <<kept[k], ExportedTile(kept[k])>>]

QuietReports == [k \in 1..VolTotal |-> <<ExpectedOrder[k], k, VolTotal>>]
QuietSummary == Summary(IsoDims(Vol, canon.cpos), canon.cpos, mode)

Writes(evs) ==
    [k \in 1..Len(evs) |->
        << <<evs[k].dir, evs[k].index>>,
           Tile(evs[k].tile, evs[k].axes, evs[k].planarconfig) >>]

Reports(evs) ==
    [k \in 1..Len(evs) |-> << <<evs[k].dir, evs[k].index>>, evs[k].done, evs[k].total >>]

ProgressFailed(e) == e.ev = "progress" /\ ~e.ok
SinkFailed(e) == e.ev = "imwrite" /\ ~e.ok

\* C16: an error raised by progress_cb does not abort the export: only a
\* failing sink ends the loops early, and the tiles handed to the sink, the
\* progress calls (done advancing past a failed call) and the returned summary
\* are those of a run whose callback never raises.
C16_ProgressErrorsSwallowed ==
    (Exporting /\ progress_cb # "None")
        => /\ IsPrefix(Writes(Imwrites(events)), QuietWrites)
           /\ IsPrefix(Reports(Progresses(events)), QuietReports)
           /\ (pc = "raised")
                 => (ret.kind = "IOError" /\ SinkFailed(events[Len(events)]))
           /\ (pc = "done")
                 => /\ Writes(Imwrites(events)) = QuietWrites
                    /\ Reports(Progresses(events)) = QuietReports
                    /\ ret = QuietSummary

\* a finished export whose callback raised on every one of its calls
C16_Witness ==
    /\ Exporting
    /\ pc = "done"
    /\ progress_cb = "raises"
    /\ Len(Progresses(events)) >= 3
    /\ \A k \in 1..Len(events) : (events[k].ev = "progress") => ProgressFailed(events[k])
    /\ Len(Imwrites(events)) >= 3
    /\ ret.kind = "summary"

\* axis resolution, canonicalization or resampling fails for the arguments
PreparationFails ==
    LET nd == Len(arr.shape)
        za == ParseAxis(z_axis_spec, nd, FALSE)
        ca == ParseAxis(c_axis_spec, nd, TRUE)
    IN  \/ za.kind = "ValueError"
        \/ ca.kind = "ValueError"
        \/ CanonicalizePreserveCSide(arr, za.val, ca).kind = "ValueError"
        \/ z_aspect = NaN

\* C17: an error ends the call with no further tile: when axis resolution,
\* canonicalization or resampling fails no tile is written and progress_cb is
\* never called; when the sink fails on a tile that call is the last one made,
\* no progress is reported for the tile, no summary is returned, and the
\* tiles written before it stay written.
C17_ErrorsAbort ==
    /\ (PreparationFails /\ pc # "start")
          => (pc = "raised" /\ ret.kind = "ValueError" /\ events = <<>>)
    /\ (pc = "raised" /\ ret.kind = "ValueError") => events = <<>>
    /\ \A k \in 1..Len(events) :
          SinkFailed(events[k])
              => /\ k = Len(events)
                 /\ pc = "raised"
                 /\ ret.kind = "IOError"
                 /\ \A j \in 1..Len(events) :
                       (events[j].ev = "progress")
                           => <<events[j].dir, events[j].index>>
                                 # <<events[k].dir, events[k].index>>
                 /\ Len(Imwrites(events)) = imwrite_fails
                 /\ \A j \in 1..(k - 1) : (events[j].ev = "imwrite") => events[j].ok
    /\ (pc = "raised") => ret.kind \in {"ValueError", "IOError"}
    /\ (ret.kind = "summary") => (pc = "done" /\ \A k \in 1..Len(events) : events[k].ok \/ events[k].ev = "progress")

\* the sink fails on the second tile, the first tile stays written and reported
C17_Witness ==
    /\ Exporting
    /\ pc = "raised"
    /\ ret.kind = "IOError"
    /\ imwrite_fails = 2
    /\ progress_cb = "returns"
    /\ Len(events) = 3
    /\ events[1].ev = "imwrite" /\ events[1].ok
    /\ events[2].ev = "progress"
    /\ SinkFailed(events[3])

====
